---- MODULE Spec2Model ----
(***************************************************************************)
(* A model of moosh/my_radio: the WFMU scraper (scripts/scrape_wfmu.py)    *)
(* and the playback driver (scripts/play_wfmu.py).                         *)
(*                                                                         *)
(* Python strings are sequences of tokens.  A token is either one          *)
(* character or a literal the code searches for as a whole ("rtmp://",     *)
(* "mp4:LM/"); no such literal overlaps itself or another one, so a        *)
(* substring test on the text is a token test on the sequence.             *)
(* "" is <<>> and None is the one-token sequence NoneVal.                  *)
(***************************************************************************)
EXTENDS Integers, Sequences, FiniteSets, TLC

VARIABLES
    \* one call of a helper function: which, its argument, what the
    \* network serves, the values returned by the calls made, raised or not
    fn, arg, env, res, raised,
    \* one run of scrape_wfmu_playlists
    spc, page, li_idx, playlist_items, entry_src, entry_count, snapshot,
    \* one run of play_wfmu.py
    pc, vlcInstalled, ffmpegInstalled, snapshotFile, playlists, printed,
    netUsed, loaded, prompted, lastInput, sel, calls, handed, menuExit,
    path, playerState, ffmpeg, tempFile, loopExit, iter

fvars == <<fn, arg, env, res, raised>>
svars == <<spc, page, li_idx, playlist_items, entry_src, entry_count, snapshot>>
dvars == <<pc, vlcInstalled, ffmpegInstalled, snapshotFile, playlists, printed,
           netUsed, loaded, prompted, lastInput, sel, calls, handed, menuExit,
           path, playerState, ffmpeg, tempFile, loopExit, iter>>
vars == <<fvars, svars, dvars>>

-----------------------------------------------------------------------------
(* Bounds of the model. *)

MaxUrlLen == 6
MaxDocLen == 5
MaxCalls == 2
MaxTextareas == 1
MaxMedia == 1
MaxAnchors == 3
MaxItems == 5
MaxShows == 2

-----------------------------------------------------------------------------
(* Python values and string primitives. *)

NoneVal == <<"None">>
Empty == <<>>

\* no wfmu_playlists.json on disk
NoSnapshot == [absent |-> TRUE]

\* `not x` for a string-or-None x
Falsy(x) == x = Empty \/ x = NoneVal

Min(S) == CHOOSE m \in S : \A n \in S : m <= n

RECURSIVE SeqsUpTo(_, _)
SeqsUpTo(S, n) ==
    IF n = 0 THEN {<<>>}
    ELSE LET shorter == SeqsUpTo(S, n - 1)
         IN shorter \cup {Append(s, t) : s \in {x \in shorter : Len(x) = n - 1}, t \in S}

LF == "LF"
CR == "CR"
SP == "SP"
QUOTE == "QUOTE"
Whitespace == {LF, CR, SP}

RECURSIVE LStrip(_)
LStrip(s) == IF s # <<>> /\ Head(s) \in Whitespace THEN LStrip(Tail(s)) ELSE s

RECURSIVE RStrip(_)
RStrip(s) ==
    IF s # <<>> /\ s[Len(s)] \in Whitespace THEN RStrip(SubSeq(s, 1, Len(s) - 1)) ELSE s

\* str.strip()
Strip(s) == RStrip(LStrip(s))

\* str.splitlines(): a line ends at "\n", "\r" or "\r\n"; no empty last line
RECURSIVE SplitLinesFrom(_, _, _)
SplitLinesFrom(s, i, cur) ==
    IF i > Len(s) THEN (IF cur = <<>> THEN <<>> ELSE <<cur>>)
    ELSE IF s[i] = CR /\ i < Len(s) /\ s[i + 1] = LF
         THEN <<cur>> \o SplitLinesFrom(s, i + 2, <<>>)
    ELSE IF s[i] \in {LF, CR} THEN <<cur>> \o SplitLinesFrom(s, i + 1, <<>>)
    ELSE SplitLinesFrom(s, i + 1, Append(cur, s[i]))

SplitLines(s) == SplitLinesFrom(s, 1, <<>>)

\* str.split('\n'): pieces between "\n", empty ones included
RECURSIVE SplitNewlineFrom(_, _, _)
SplitNewlineFrom(s, i, cur) ==
    IF i > Len(s) THEN <<cur>>
    ELSE IF s[i] = LF THEN <<cur>> \o SplitNewlineFrom(s, i + 1, <<>>)
    ELSE SplitNewlineFrom(s, i + 1, Append(cur, s[i]))

SplitNewline(s) == SplitNewlineFrom(s, 1, <<>>)

\* the loop `for line in lines: line = line.strip(); if line and not
\* line.startswith('#'): return line`, with `none` when it falls through
RECURSIVE FirstUrlLine(_, _)
FirstUrlLine(lines, none) ==
    IF lines = <<>> THEN none
    ELSE LET line == Strip(Head(lines))
         IN IF line # <<>> /\ line[1] # "#" THEN line
            ELSE FirstUrlLine(Tail(lines), none)

-----------------------------------------------------------------------------
(* Results of code that can raise: a value, or an exception. *)

Ret(v) == [exc |-> FALSE, val |-> v]
Raise == [exc |-> TRUE, val |-> NoneVal]

\* an `except Exception:` handler that goes on to return `default`
Absorb(r, default) == IF r.exc THEN Ret(default) ELSE r

-----------------------------------------------------------------------------
(* scrape_wfmu.py: get_s3_url_from_rtmp *)

S3Prefix == <<"https://", "s3.amazonaws.com/arch.wfmu.org/LM/">>
LMMarker == "mp4:LM/"

\* the group ([^"]+) matched from position i: the longest run without a quote
RECURSIVE NonQuoteRun(_, _)
NonQuoteRun(s, i) ==
    IF i > Len(s) \/ s[i] = QUOTE THEN <<>>
    ELSE <<s[i]>> \o NonQuoteRun(s, i + 1)

\* the rightmost match instead of the leftmost
FilenameMatchLast(s) ==
    LET starts == {i \in 1..(Len(s) - 1) : s[i] = LMMarker /\ s[i + 1] # QUOTE}
    IN IF starts = {} THEN NoneVal
       ELSE NonQuoteRun(s, (CHOOSE m \in starts : \A n \in starts : n <= m) + 1)

\* re.search(r'mp4:LM/([^"]+)', rtmp_url).group(1), NoneVal without a match
FilenameMatch(s) ==
    LET starts == {i \in 1..(Len(s) - 1) : s[i] = LMMarker /\ s[i + 1] # QUOTE}
    IN IF starts = {} THEN NoneVal ELSE NonQuoteRun(s, Min(starts) + 1)

get_s3_url_from_rtmp(rtmp_url) ==
    IF Falsy(rtmp_url) THEN NoneVal
    ELSE LET filename == FilenameMatch(rtmp_url)
         IN IF filename # NoneVal THEN S3Prefix \o filename ELSE NoneVal

-----------------------------------------------------------------------------
(* get_mp3_url_from_m3u, in scrape_wfmu.py and in play_wfmu.py.            *)
(* What the network serves for the playlist file is a record               *)
(* [fetch, text]: requests.get raises (transport_error), raise_for_status  *)
(* raises (http_error), or the body is text.                               *)

M3uUrl == <<"https://", "w", "listen.m3u">>

\* the body of the try block: it raises where requests does
scrape_m3u_try(m3u_url, served) ==
    IF served.fetch # "ok" THEN Raise
    ELSE Ret(FirstUrlLine(SplitLines(served.text), Empty))

scrape_get_mp3_url_from_m3u(m3u_url, served) ==
    IF Falsy(m3u_url) THEN Ret(Empty)
    ELSE Absorb(scrape_m3u_try(m3u_url, served), Empty)      \* except Exception: print

play_m3u_try(m3u_url, served) ==
    IF Falsy(m3u_url) THEN Ret(NoneVal)
    ELSE IF served.fetch # "ok" THEN Raise
    ELSE Ret(FirstUrlLine(SplitNewline(Strip(served.text)), NoneVal))

play_get_mp3_url_from_m3u(m3u_url, served) ==
    Absorb(play_m3u_try(m3u_url, served), NoneVal)           \* except Exception: log

-----------------------------------------------------------------------------
(* json.loads on the subset of JSON the player page uses: null, a number,  *)
(* a string, an object.  A value is a record tagged by kind; an object     *)
(* keeps its members in order, and a lookup takes the last one of a key,   *)
(* as a Python dict built by json.loads does.                              *)

JNull == [kind |-> "null"]
JNum == [kind |-> "num"]
JStr(s) == [kind |-> "str", s |-> s]
JObj(keys, vals) == [kind |-> "obj", keys |-> keys, vals |-> vals]

ParseFail == [ok |-> FALSE, val |-> JNull, next |-> 0]
Parsed(v, n) == [ok |-> TRUE, val |-> v, next |-> n]

RECURSIVE SkipWs(_, _)
SkipWs(t, i) == IF i <= Len(t) /\ t[i] \in Whitespace THEN SkipWs(t, i + 1) ELSE i

\* a string starting at the quote t[i], with `body` the text up to the next quote
StringFrom(t, i, body) ==
    IF i + 1 + Len(body) <= Len(t) THEN Parsed(JStr(body), i + Len(body) + 2) ELSE ParseFail
ParseString(t, i) == StringFrom(t, i, NonQuoteRun(t, i + 1))

RECURSIVE ParseValue(_, _), ParseMembers(_, _, _, _)

\* after a member: "}" ends the object, "," brings another member
AtSeparator(t, d, keys, vals) ==
    IF d > Len(t) THEN ParseFail
    ELSE IF t[d] = "}" THEN Parsed(JObj(keys, vals), d + 1)
    ELSE IF t[d] = "," THEN ParseMembers(t, SkipWs(t, d + 1), keys, vals)
    ELSE ParseFail
AfterValue(t, v, keys, vals) ==
    IF ~v.ok THEN ParseFail
    ELSE AtSeparator(t, SkipWs(t, v.next), keys, Append(vals, v.val))
AtColon(t, c, keys, vals) ==
    IF c > Len(t) \/ t[c] # ":" THEN ParseFail
    ELSE AfterValue(t, ParseValue(t, c + 1), keys, vals)
AfterKey(t, k, keys, vals) ==
    IF ~k.ok THEN ParseFail
    ELSE AtColon(t, SkipWs(t, k.next), Append(keys, k.val.s), vals)

\* "key": value, then "," and another member, or "}"
ParseMembers(t, i, keys, vals) ==
    IF i > Len(t) \/ t[i] # QUOTE THEN ParseFail
    ELSE AfterKey(t, ParseString(t, i), keys, vals)

ObjectAt(t, j) ==
    IF j <= Len(t) /\ t[j] = "}" THEN Parsed(JObj(<<>>, <<>>), j + 1)
    ELSE ParseMembers(t, j, <<>>, <<>>)
ValueAt(t, i) ==
    IF i > Len(t) THEN ParseFail
    ELSE IF t[i] = "null" THEN Parsed(JNull, i + 1)
    ELSE IF t[i] = "7" THEN Parsed(JNum, i + 1)
    ELSE IF t[i] = QUOTE THEN ParseString(t, i)
    ELSE IF t[i] = "{" THEN ObjectAt(t, SkipWs(t, i + 1))
    ELSE ParseFail
ParseValue(t, i) == ValueAt(t, SkipWs(t, i))

\* json.loads(text): the value, or JSONDecodeError (also for text after it)
WholeText(t, v) == IF v.ok /\ SkipWs(t, v.next) > Len(t) THEN Ret(v.val) ELSE Raise
json_loads(t) == WholeText(t, ParseValue(t, 1))

\* bool(v)
JTruthy(v) ==
    CASE v.kind = "null" -> FALSE
      [] v.kind = "num" -> TRUE
      [] v.kind = "str" -> v.s # <<>>
      [] v.kind = "obj" -> v.keys # <<>>

InSeq(x, s) == \E i \in 1..Len(s) : s[i] = x

\* `key in v`: a key of a dict, a substring of a str, TypeError otherwise
JContains(key, v) ==
    CASE v.kind = "obj" -> Ret(InSeq(key, v.keys))
      [] v.kind = "str" -> Ret(\E i \in 1..(Len(v.s) - Len(key) + 1) :
                                    SubSeq(v.s, i, i + Len(key) - 1) = key)
      [] OTHER -> Raise

\* v[key]: KeyError for a missing key, TypeError for what is no dict
JIndex(v, key) ==
    IF v.kind = "obj" /\ InSeq(key, v.keys)
    THEN Ret(v.vals[CHOOSE i \in 1..Len(v.keys) :
                       v.keys[i] = key /\ \A j \in (i + 1)..Len(v.keys) : v.keys[j] # key])
    ELSE Raise

\* the Python value of a JSON value that the caller uses as a string
JToPy(v) ==
    CASE v.kind = "str" -> v.s
      [] v.kind = "null" -> NoneVal
      [] OTHER -> <<"<not a string>">>

\* the text json.dumps would give, as the page's author wrote it
RECURSIVE JsonText(_), MembersText(_, _, _)
JsonText(v) ==
    CASE v.kind = "null" -> <<"null">>
      [] v.kind = "num" -> <<"7">>
      [] v.kind = "str" -> <<QUOTE>> \o v.s \o <<QUOTE>>
      [] v.kind = "obj" -> <<"{">> \o MembersText(v.keys, v.vals, 1) \o <<"}">>
MembersText(keys, vals, i) ==
    IF i > Len(keys) THEN <<>>
    ELSE <<QUOTE>> \o keys[i] \o <<QUOTE, ":">> \o JsonText(vals[i])
         \o (IF i < Len(keys) THEN <<",">> ELSE <<>>)
         \o MembersText(keys, vals, i + 1)

-----------------------------------------------------------------------------
(* URLs and hrefs.  urlparse and parse_qs on token sequences: the query    *)
(* starts after "?", its parameters are separated by "&", a parameter is   *)
(* a key token ("show=", "archive=") followed by the tokens of its value.  *)

StartsWith(s, prefixes) == s # <<>> /\ s[1] \in prefixes

WfmuHost == <<"https://", "www.wfmu.org">>

QueryStart(h) ==
    LET q == {i \in 1..Len(h) : h[i] = "?"}
    IN IF q = {} THEN Len(h) + 1 ELSE Min(q) + 1

RECURSIVE ParamValue(_, _)
ParamValue(h, i) ==
    IF i > Len(h) \/ h[i] = "&" THEN <<>>
    ELSE <<h[i]>> \o ParamValue(h, i + 1)

\* parse_qs(urlparse(h).query).get(key, [''])[0]; parse_qs drops blank values
QueryGet(h, key) ==
    LET q == QueryStart(h)
        hits == {i \in q..Len(h) : /\ h[i] = key
                                   /\ (i = q \/ h[i - 1] = "&")
                                   /\ ParamValue(h, i + 1) # <<>>}
    IN IF hits = {} THEN Empty ELSE ParamValue(h, Min(hits) + 1)

\* urlparse raises ValueError for a netloc with an unclosed "["
UrlParseRaises(h) == InSeq("//[", h)

\* f"https://www.wfmu.org/flashplayer.php?version=3&show={show_id}&archive={archive_id}"
PopupUrl(show_id, archive_id) ==
    WfmuHost \o <<"/", "flashplayer.php", "?", "version=3", "&", "show=">> \o show_id
             \o <<"&", "archive=">> \o archive_id

\* f"https://www.wfmu.org/archiveplayer/?show={show_id}&archive={archive_id}"
ArchivePlayerUrl(show_id, archive_id) ==
    WfmuHost \o <<"/", "archiveplayer/", "?", "show=">> \o show_id
             \o <<"&", "archive=">> \o archive_id

\* f"https://www.wfmu.org/listen.m3u?show={show_id}&archive={archive_id}"
ListenM3uUrl(show_id, archive_id) ==
    WfmuHost \o <<"/", "listen.m3u", "?", "show=">> \o show_id
             \o <<"&", "archive=">> \o archive_id

-----------------------------------------------------------------------------
(* scrape_wfmu.py: construct_m3u_url *)

construct_m3u_try(popup_url) ==
    IF UrlParseRaises(popup_url) THEN Raise
    ELSE LET show_id == QueryGet(popup_url, "show=")
             archive_id == QueryGet(popup_url, "archive=")
         IN IF show_id # <<>> /\ archive_id # <<>>
            THEN Ret(ListenM3uUrl(show_id, archive_id))
            ELSE Ret(Empty)

construct_m3u_url(popup_url) ==
    IF Falsy(popup_url) THEN Ret(Empty)
    ELSE Absorb(construct_m3u_try(popup_url), Empty)         \* except Exception: pass

-----------------------------------------------------------------------------
(* The player page the network serves: [fetch, textareas, media].          *)
(* A textarea is [id, string] with string = NoneVal when the element has   *)
(* no single text child; a media element (source, audio, video) is         *)
(* [src, data_url] with NoneVal for an attribute it lacks.                 *)

\* soup.find('textarea', {'id': 'playlist-data'}): its index, 0 for None
FindPlaylistData(textareas) ==
    LET hits == {i \in 1..Len(textareas) : textareas[i].id = "playlist-data"}
    IN IF hits = {} THEN 0 ELSE Min(hits)

\* an `in` test guarding `then`: the test may raise, or fail and fall
\* through to the final `return ""`
GuardIn(has, then) ==
    IF has.exc THEN Raise ELSE IF ~has.val THEN Ret(Empty) ELSE then
PyStr(r) == IF r.exc THEN Raise ELSE Ret(JToPy(r.val))
UrlOf(attrs) == IF attrs.exc THEN Raise ELSE PyStr(JIndex(attrs.val, <<"url">>))
AttrsOf(audio) ==
    IF audio.exc THEN Raise
    ELSE GuardIn(JContains(<<"@attributes">>, audio.val),
                 UrlOf(JIndex(audio.val, <<"@attributes">>)))

\* lines 29-30: data['audio']['@attributes']['url'] behind its two tests
AudioUrl(data) ==
    IF ~JTruthy(data) THEN Ret(Empty)
    ELSE GuardIn(JContains(<<"audio">>, data), AttrsOf(JIndex(data, <<"audio">>)))

\* lines 27-32: the inner try block; `except json.JSONDecodeError: pass`
FromJson(data) == IF data.exc THEN Ret(Empty) ELSE AudioUrl(data.val)
FromTextarea(textareas, i) ==
    IF i = 0 THEN Ret(Empty)
    ELSE IF textareas[i].string = NoneVal THEN Raise             \* None.strip()
    ELSE FromJson(json_loads(Strip(textareas[i].string)))

\* scrape_wfmu.py lines 15-32: the outer try block
scrape_flash_try(popup_url, served) ==
    IF served.fetch # "ok" THEN Raise                \* requests.get, raise_for_status
    ELSE FromTextarea(served.textareas, FindPlaylistData(served.textareas))

\* the same function without the handler of lines 34-35
scrape_flash_no_handler(popup_url, served) ==
    IF Falsy(popup_url) THEN Ret(Empty) ELSE scrape_flash_try(popup_url, served)

get_media_url_from_flashplayer(popup_url, served) ==
    IF Falsy(popup_url) THEN Ret(Empty)
    ELSE Absorb(scrape_flash_try(popup_url, served), Empty)  \* except Exception: print

\* play_wfmu.py lines 78-84: the popup URL turned into the archive player's
PlayerPageUrl(popup_url) ==
    IF ~InSeq("flashplayer.php", popup_url) THEN Ret(popup_url)
    ELSE IF UrlParseRaises(popup_url) THEN Raise
    ELSE LET show_id == QueryGet(popup_url, "show=")
             archive_id == QueryGet(popup_url, "archive=")
         IN IF show_id # <<>> /\ archive_id # <<>>
            THEN Ret(ArchivePlayerUrl(show_id, archive_id))
            ELSE Ret(popup_url)

\* lines 100-102: the textareas whose text holds an http(s) URL, stripped
RECURSIVE TextareaSources(_)
TextareaSources(textareas) ==
    IF textareas = <<>> THEN <<>>
    ELSE LET str == Head(textareas).string
         IN (IF ~Falsy(str) /\ (InSeq("http://", str) \/ InSeq("https://", str))
             THEN <<Strip(str)>> ELSE <<>>)
            \o TextareaSources(Tail(textareas))

\* lines 105-109: src, then data-url, of each source, audio or video element
RECURSIVE MediaSources(_)
MediaSources(media) ==
    IF media = <<>> THEN <<>>
    ELSE (IF ~Falsy(Head(media).src) THEN <<Head(media).src>> ELSE <<>>)
         \o (IF ~Falsy(Head(media).data_url) THEN <<Head(media).data_url>> ELSE <<>>)
         \o MediaSources(Tail(media))

PlayableSchemes == {"http://", "https://", "rtmp://", "rtmpt://"}

\* lines 112-116
RECURSIVE FirstValidUrl(_)
FirstValidUrl(sources) ==
    IF sources = <<>> THEN NoneVal
    ELSE IF StartsWith(Head(sources), PlayableSchemes) THEN Strip(Head(sources))
    ELSE FirstValidUrl(Tail(sources))

\* lines 90-116, for the page URL `target`
FetchPlayerPage(target, served) ==
    IF target.exc THEN Raise
    ELSE IF ~StartsWith(target.val, {"http://", "https://"}) THEN Raise   \* MissingSchema
    ELSE IF served.fetch = "transport_error" THEN Raise
    ELSE IF served.fetch # "ok" THEN Ret(NoneVal)                 \* status_code != 200
    ELSE Ret(FirstValidUrl(TextareaSources(served.textareas) \o MediaSources(served.media)))

play_flash_try(popup_url, served) ==
    IF popup_url = NoneVal THEN Raise                \* 'flashplayer.php' in None
    ELSE FetchPlayerPage(PlayerPageUrl(popup_url), served)

get_stream_url_from_flashplayer(popup_url, served) ==
    Absorb(play_flash_try(popup_url, served), NoneVal)       \* except Exception: log

-----------------------------------------------------------------------------
(* The parts of the model a specification leaves out stay as they are.     *)

NoCall == /\ fn = "none" /\ arg = <<>> /\ env = [kind |-> "none"]
          /\ res = <<>> /\ raised = FALSE

NoScrape == /\ spc = "off" /\ page = <<>> /\ li_idx = 0 /\ playlist_items = <<>>
            /\ entry_src = <<>> /\ entry_count = 0 /\ snapshot = NoSnapshot

\* the latest pass through a control loop: what interrupted it or "poll",
\* the character read, the player's state when it was read, and the state
\* get_state() returned ("unchecked" when the pass did not reach it)
Iteration(ev, cmd, before, observed) ==
    [ev |-> ev, cmd |-> cmd, before |-> before, observed |-> observed]
NoIteration == Iteration("none", "", "none", "none")

NothingPrinted == [vlc |-> 0, ffmpeg |-> 0, no_playlists |-> 0, last |-> ""]
NoInput == [kind |-> "none"]

NoDriver == /\ pc = "off" /\ vlcInstalled = TRUE /\ ffmpegInstalled = TRUE
            /\ snapshotFile = NoSnapshot /\ playlists = <<>>
            /\ printed = NothingPrinted /\ netUsed = FALSE /\ loaded = FALSE
            /\ prompted = FALSE /\ lastInput = NoInput /\ sel = 0
            /\ calls = <<>> /\ handed = NoneVal /\ menuExit = "none"
            /\ path = "none" /\ playerState = "none" /\ ffmpeg = "none"
            /\ tempFile = "none" /\ loopExit = "none" /\ iter = NoIteration

-----------------------------------------------------------------------------
(* Calls of the helper functions on inputs drawn from bounded sets.  A     *)
(* call is repeated up to MaxCalls times on the same input and network.    *)

RtmpUrl == <<"rtmp://", "host/", LMMarker, "f">>
HttpUrl == <<"https://", "a">>
PopupSample == PopupUrl(<<"1">>, <<"2">>)

FnInit(cases) ==
    /\ fn = "none" /\ res = <<>> /\ raised = FALSE
    /\ \E c \in cases : arg = c.arg /\ env = c.env
    /\ NoScrape /\ NoDriver

Call(name, kind, r) ==
    /\ fn \in {"none", name}
    /\ env.kind = kind
    /\ Len(res) < MaxCalls
    /\ ~raised
    /\ fn' = name
    /\ res' = Append(res, r.val)
    /\ raised' = r.exc
    /\ UNCHANGED <<arg, env, svars, dvars>>

CallS3 == Call("get_s3_url_from_rtmp", "s3", Ret(get_s3_url_from_rtmp(arg)))
CallScrapeM3u == Call("scrape.get_mp3_url_from_m3u", "m3u", scrape_get_mp3_url_from_m3u(arg, env))
CallPlayM3u == Call("play.get_mp3_url_from_m3u", "m3u", play_get_mp3_url_from_m3u(arg, env))
CallConstructM3u == Call("construct_m3u_url", "url", construct_m3u_url(arg))
CallScrapeFlash == Call("get_media_url_from_flashplayer", "page", get_media_url_from_flashplayer(arg, env))
CallPlayFlash == Call("get_stream_url_from_flashplayer", "page", get_stream_url_from_flashplayer(arg, env))

\* get_s3_url_from_rtmp on every short string over the tokens that matter
S3Alphabet == {"rtmp://", "host/", LMMarker, "f", QUOTE}
S3Cases == {[arg |-> a, env |-> [kind |-> "s3"]] :
                a \in SeqsUpTo(S3Alphabet, MaxUrlLen) \cup {NoneVal}}
InitS3 == FnInit(S3Cases)
NextS3 == CallS3
SpecS3 == InitS3 /\ [][NextS3]_vars

\* both get_mp3_url_from_m3u on every short document
M3uAlphabet == {"u", "v", "#", SP, LF, CR}
M3uServed(f, t) == [kind |-> "m3u", fetch |-> f, text |-> t]
M3uFailures == {M3uServed("transport_error", <<>>), M3uServed("http_error", <<>>)}
M3uCases ==
    {[arg |-> M3uUrl, env |-> M3uServed("ok", t)] : t \in SeqsUpTo(M3uAlphabet, MaxDocLen)}
    \cup {[arg |-> M3uUrl, env |-> e] : e \in M3uFailures}
    \cup {[arg |-> a, env |-> M3uServed("ok", <<"u">>)] : a \in {Empty, NoneVal}}
InitM3u == FnInit(M3uCases)
NextM3u == CallScrapeM3u \/ CallPlayM3u
SpecM3u == InitM3u /\ [][NextM3u]_vars

\* the player pages
WellFormed(u) ==
    JObj(<< <<"audio">> >>,
         << JObj(<< <<"@attributes">> >>, << JObj(<< <<"url">> >>, << JStr(u) >>) >>) >>)
WellFormedWithMore(u) ==
    JObj(<< <<"x">>, <<"audio">> >>,
         << JNum, JObj(<< <<"x">>, <<"@attributes">> >>,
                       << JNull, JObj(<< <<"url">> >>, << JStr(u) >>) >>) >>)
JsonSamples ==
    { WellFormed(RtmpUrl), WellFormed(HttpUrl), WellFormedWithMore(RtmpUrl),
      JObj(<< <<"audio">> >>, << JObj(<< <<"x">> >>, << JNum >>) >>),
      JObj(<< <<"audio">> >>, << JObj(<< <<"@attributes">> >>, << JObj(<<>>, <<>>) >>) >>),
      JObj(<< <<"audio">> >>, << JNull >>),
      JObj(<<>>, <<>>), JNull, JNum }
NotJson ==
    { SubSeq(JsonText(WellFormed(RtmpUrl)), 1, Len(JsonText(WellFormed(RtmpUrl))) - 1),
      HttpUrl, <<SP>> }
TextareaStrings ==
    {JsonText(v) : v \in JsonSamples}
    \cup {<<SP>> \o JsonText(WellFormed(RtmpUrl)) \o <<LF>>}
    \cup NotJson \cup {NoneVal}
Textareas == {[id |-> i, string |-> t] : i \in {"playlist-data", "other"}, t \in TextareaStrings}
MediaElements ==
    { [src |-> HttpUrl, data_url |-> NoneVal], [src |-> <<"/", "a.mp3">>, data_url |-> NoneVal],
      [src |-> NoneVal, data_url |-> RtmpUrl], [src |-> NoneVal, data_url |-> NoneVal] }
PageServed(f, ts, ms) == [kind |-> "page", fetch |-> f, textareas |-> ts, media |-> ms]
PageFailures == {PageServed("transport_error", <<>>, <<>>), PageServed("http_error", <<>>, <<>>)}
Pages ==
    {PageServed("ok", ts, ms) : ts \in SeqsUpTo(Textareas, MaxTextareas),
                                ms \in SeqsUpTo(MediaElements, MaxMedia)}
    \cup PageFailures
OddUrls ==
    { NoneVal, Empty, <<"//[", "flashplayer.php">>, <<"/", "flashplayer.php", "?", "show=", "1">>,
      WfmuHost \o <<"/", "flashplayer.php", "?", "show=", "&", "archive=", "2">> }
ResolveCases ==
    {[arg |-> PopupSample, env |-> e] : e \in Pages}
    \cup {[arg |-> a, env |-> PageServed("ok", <<[id |-> "playlist-data",
                                                  string |-> JsonText(WellFormed(HttpUrl))]>>, <<>>)] :
              a \in OddUrls}
    \cup {[arg |-> a, env |-> [kind |-> "url"]] : a \in OddUrls \cup {PopupSample}}
    \cup {[arg |-> a, env |-> e] :
              a \in {M3uUrl, Empty, NoneVal},
              e \in M3uFailures \cup {M3uServed("ok", t) :
                                       t \in {<<>>, <<"#">>, <<"#", LF, "u">>, <<"#", CR, "u">>}}}
InitResolve == FnInit(ResolveCases)
NextResolve ==
    \/ CallScrapeFlash
    \/ CallPlayFlash
    \/ CallConstructM3u
    \/ CallScrapeM3u
    \/ CallPlayM3u
SpecResolve == InitResolve /\ [][NextResolve]_vars

-----------------------------------------------------------------------------
(* C9: get_s3_url_from_rtmp.                                               *)
(* An input of the form <scheme>://<host>/mp4:LM/<filename> is the scheme  *)
(* token, the host token, the marker and a non-empty filename.             *)

IsRtmpForm(a) ==
    /\ a # NoneVal /\ Len(a) >= 4
    /\ a[1] = "rtmp://" /\ a[2] = "host/" /\ a[3] = LMMarker
FormFilename(a) == SubSeq(a, 4, Len(a))

\* the input holds 'mp4:LM/' followed by at least one character
HasMarkerAndMore(a) == a # NoneVal /\ \E i \in 1..(Len(a) - 1) : a[i] = LMMarker

\* the part of a filename before its first double quote
BeforeQuote(f) ==
    LET q == {i \in 1..Len(f) : f[i] = QUOTE}
    IN IF q = {} THEN f ELSE SubSeq(f, 1, Min(q) - 1)

S3Called == fn = "get_s3_url_from_rtmp" /\ res # <<>>

\* C9 as stated: every URL of the form maps to the S3 URL of its unchanged
\* filename, and an input that is empty or has no 'mp4:LM/' followed by a
\* character gives None.
C9_AsStated ==
    S3Called =>
        \A i \in 1..Len(res) :
            /\ IsRtmpForm(arg) => res[i] = S3Prefix \o FormFilename(arg)
            /\ (Falsy(arg) \/ ~HasMarkerAndMore(arg)) => res[i] = NoneVal

\* C9 as amended: a URL of the form whose filename does not start with a
\* double quote maps to the S3 URL of the filename cut at its first double
\* quote, so a filename without a double quote is copied unchanged; an input
\* that is empty or has no 'mp4:LM/' followed by a character gives None.
C9_S3Mapping ==
    S3Called =>
        \A i \in 1..Len(res) :
            /\ (IsRtmpForm(arg) /\ FormFilename(arg)[1] # QUOTE)
                   => res[i] = S3Prefix \o BeforeQuote(FormFilename(arg))
            /\ (IsRtmpForm(arg) /\ ~InSeq(QUOTE, FormFilename(arg)))
                   => res[i] = S3Prefix \o FormFilename(arg)
            /\ (Falsy(arg) \/ ~HasMarkerAndMore(arg)) => res[i] = NoneVal

\* a URL of the form, with a filename that itself holds the marker, mapped
C9_Witness ==
    /\ S3Called
    /\ arg = <<"rtmp://", "host/", LMMarker, "f", LMMarker, "f">>
    /\ res[1] = S3Prefix \o <<"f", LMMarker, "f">>

-----------------------------------------------------------------------------
(* C10: the first content line of an M3U document.  A line is a maximal    *)
(* run of characters between line ends ("\n", "\r", or the two together).  *)

LineEnds == {LF, CR}
LineRuns(t) ==
    {r \in (1..Len(t)) \X (1..Len(t)) :
        /\ r[1] <= r[2]
        /\ \A k \in r[1]..r[2] : t[k] \notin LineEnds
        /\ (r[1] = 1 \/ t[r[1] - 1] \in LineEnds)
        /\ (r[2] = Len(t) \/ t[r[2] + 1] \in LineEnds)}
IsContent(l) == Strip(l) # <<>> /\ Strip(l)[1] # "#"
ContentRuns(t) == {r \in LineRuns(t) : IsContent(SubSeq(t, r[1], r[2]))}
ExpectedLine(t) ==
    IF ContentRuns(t) = {} THEN Empty
    ELSE LET first == CHOOSE r \in ContentRuns(t) : \A o \in ContentRuns(t) : r[1] <= o[1]
         IN Strip(SubSeq(t, first[1], first[2]))

\* "" and None are both the empty/absent result
Absent(x) == IF Falsy(x) THEN Empty ELSE x

M3uFetched(name) ==
    /\ fn = name /\ res # <<>>
    /\ env.kind = "m3u" /\ env.fetch = "ok" /\ ~Falsy(arg)

\* C10 as stated: for every fetched document, the scraper's and the player's
\* get_mp3_url_from_m3u both return the first line that, trimmed, is
\* non-empty and does not start with '#', and an empty/absent result when
\* there is none.
C10_AsStated ==
    \A name \in {"scrape.get_mp3_url_from_m3u", "play.get_mp3_url_from_m3u"} :
        M3uFetched(name) =>
            \A i \in 1..Len(res) : Absent(res[i]) = ExpectedLine(env.text)

-----------------------------------------------------------------------------
(* C5 and C8: the resolvers on the outcomes of the fetch and the parse.    *)

FlashFns == {"get_media_url_from_flashplayer", "get_stream_url_from_flashplayer"}
M3uFns == {"scrape.get_mp3_url_from_m3u", "play.get_mp3_url_from_m3u"}

LackingSamples ==
    { JObj(<< <<"audio">> >>, << JObj(<< <<"x">> >>, << JNum >>) >>),
      JObj(<< <<"audio">> >>, << JObj(<< <<"@attributes">> >>, << JObj(<<>>, <<>>) >>) >>) }

\* a textarea with no text, with malformed JSON, or with JSON whose audio
\* object lacks '@attributes' or 'url'
FailingTextarea(t) ==
    \/ t.string = NoneVal
    \/ t.string \in NotJson
    \/ \E v \in LackingSamples : Strip(t.string) = JsonText(v)

\* one of the failures C5 lists
ListedFailure ==
    \/ Falsy(arg)
    \/ env.kind \in {"page", "m3u"} /\ env.fetch # "ok"
    \/ env.kind = "page" /\ \A k \in 1..Len(env.textareas) : FailingTextarea(env.textareas[k])

\* the page offers the player's resolver a URL outside any JSON: a textarea
\* text or a media element's src or data-url that starts with a scheme
OffersPlainUrl ==
    /\ env.kind = "page" /\ env.fetch = "ok"
    /\ \/ \E k \in 1..Len(env.textareas) :
             /\ ~Falsy(env.textareas[k].string)
             /\ StartsWith(Strip(env.textareas[k].string), PlayableSchemes)
       \/ \E k \in 1..Len(env.media) :
             \/ StartsWith(env.media[k].src, PlayableSchemes)
             \/ StartsWith(env.media[k].data_url, PlayableSchemes)

IsAudioBlock(str, u) ==
    /\ ~Falsy(str)
    /\ Strip(str) \in {JsonText(WellFormed(u)), JsonText(WellFormedWithMore(u))}

\* the url of the page's JSON audio block: the text of its first textarea
\* with id 'playlist-data' is a well-formed block with that url
HasAudioBlock(served, u) ==
    \E k \in 1..Len(served.textareas) :
        /\ served.textareas[k].id = "playlist-data"
        /\ \A j \in 1..(k - 1) : served.textareas[j].id # "playlist-data"
        /\ IsAudioBlock(served.textareas[k].string, u)

\* C8 as stated: on a page with a well-formed JSON audio block of url U,
\* both resolvers return exactly U, on every repeated call.
C8_AsStated ==
    (fn \in FlashFns /\ env.kind = "page" /\ env.fetch = "ok" /\ arg = PopupSample) =>
        \A u \in {RtmpUrl, HttpUrl} :
            HasAudioBlock(env, u) => \A i \in 1..Len(res) : res[i] = u

-----------------------------------------------------------------------------
(* scrape_wfmu.py, scrape_wfmu_playlists: the link classifier (lines       *)
(* 139-166).  An anchor is [text, href], href = "" when it has none.       *)

NoLinks(li_text) ==
    [playlist_link |-> Empty, popup_listen_url |-> Empty,
     show_id |-> Empty, archive_id |-> Empty, text |-> li_text]

\* the loop over li.find_all('a') from anchor i on; `text` is the loop's
\* own assignment to the variable that held the list item's text
RECURSIVE ClassifyFrom(_, _, _)
ClassifyFrom(links, i, acc) ==
    IF i > Len(links) THEN Ret(acc)
    ELSE LET href == links[i].href
             text == links[i].text
             seen == [acc EXCEPT !.text = text]
         IN IF InSeq("See the playlist", text)
            THEN ClassifyFrom(links, i + 1, [seen EXCEPT !.playlist_link = WfmuHost \o href])
            ELSE IF InSeq("Pop-up", text)
                    \/ (InSeq("flashplayer.php", href) /\ InSeq("version=3", href))
            THEN IF UrlParseRaises(href) THEN Raise
                 ELSE LET show_id == QueryGet(href, "show=")
                          archive_id == QueryGet(href, "archive=")
                          ids == [seen EXCEPT !.show_id = show_id, !.archive_id = archive_id]
                      IN IF show_id # <<>> /\ archive_id # <<>>
                         THEN Ret([ids EXCEPT !.popup_listen_url = PopupUrl(show_id, archive_id)])
                         ELSE ClassifyFrom(links, i + 1, ids)
            ELSE ClassifyFrom(links, i + 1, seen)

ClassifyLinks(links, li_text) == ClassifyFrom(links, 1, NoLinks(li_text))

PlaylistHref(n) == <<"/", "playlists/shows/", n>>
FlashHref(show_id, archive_id) ==
    <<"/", "flashplayer.php", "?", "version=3", "&", "show=">> \o show_id
        \o <<"&", "archive=">> \o archive_id
Anchor(t, h) == [text |-> t, href |-> h]

AnchorKinds ==
    { Anchor(<<"See the playlist">>, PlaylistHref("p1")),
      Anchor(<<"See the playlist">>, PlaylistHref("p2")),
      Anchor(<<"Pop-up">>, FlashHref(<<"1">>, <<"2">>)),
      Anchor(<<"Pop-up">>, FlashHref(<<"5">>, <<>>)),
      Anchor(<<"Listen">>, FlashHref(<<"3">>, <<"4">>)),
      Anchor(<<"MP3 - 128K">>, <<"/", "listen.m3u", "?", "show=", "1", "&", "archive=", "2">>) }

ClassifyCases ==
    {[arg |-> <<"Apr 24, 2025", "Show">>, env |-> [kind |-> "links", anchors |-> a]] :
        a \in SeqsUpTo(AnchorKinds, MaxAnchors)}
CallClassify == Call("link classifier", "links", ClassifyLinks(env.anchors, arg))
InitClassify == FnInit(ClassifyCases)
NextClassify == CallClassify
SpecClassify == InitClassify /\ [][NextClassify]_vars

-----------------------------------------------------------------------------
(* scrape_wfmu_playlists: one run over the listing page.  A list item is   *)
(* [text, anchors, bold]: the tokens of its visible text (a date the date  *)
(* pattern matches is one token), its anchors, and its bold text without   *)
(* links (NoneVal when it has no <b>).                                     *)

CutoffYear == 2024
max_entries == 4

DateTokens == {"Apr 24, 2025", "Jan 5, 2026", "Dec 31, 2024"}
YearOf(tok) ==
    CASE tok = "Apr 24, 2025" -> 2025
      [] tok = "Jan 5, 2026" -> 2026
      [] tok = "Dec 31, 2024" -> 2024

\* date_pattern.search(text): the position of the leftmost match, 0 for None
FirstDateIndex(text) ==
    LET hits == {i \in 1..Len(text) : text[i] \in DateTokens}
    IN IF hits = {} THEN 0 ELSE Min(hits)

\* a cutoff that lets the cutoff year itself through
StopsAtYearStrict(year) == year < CutoffYear

\* line 136
StopsAtYear(year) == year <= CutoffYear

\* title.rstrip('. ')
RECURSIVE RStripDots(_)
RStripDots(t) ==
    IF t # <<>> /\ t[Len(t)] \in {".", SP} THEN RStripDots(SubSeq(t, 1, Len(t) - 1)) ELSE t

\* what the site serves for a popup URL
SiteServes(popup_url) ==
    LET block(u) == PageServed("ok", <<[id |-> "playlist-data", string |-> JsonText(WellFormed(u))]>>, <<>>)
    IN CASE QueryGet(popup_url, "show=") = <<"1">> -> block(RtmpUrl)
         [] QueryGet(popup_url, "show=") = <<"3">> -> PageServed("http_error", <<>>, <<>>)
         [] OTHER -> block(HttpUrl)

\* lines 189-200: the entry, from the classifier's variables and the
\* result of get_media_url_from_flashplayer
MakeEntry(li, date_str, links, direct) ==
    [date |-> date_str,
     title |-> IF li.bold = NoneVal THEN Empty ELSE RStripDots(Strip(li.bold)),
     show_id |-> links.show_id,
     archive_id |-> links.archive_id,
     playlist_link |-> links.playlist_link,
     popup_listen_url |-> links.popup_listen_url,
     direct_media_url |-> direct,
     mp4_listen_url |-> get_s3_url_from_rtmp(direct),
     raw_text |-> links.text]

Step(kind, entry) == [step |-> kind, entry |-> entry]

\* lines 183-207, with the result of the resolver
WithMedia(li, date_str, links, direct) ==
    IF direct.exc THEN Step("raise", NoneVal)
    ELSE Step("append", MakeEntry(li, date_str, links, direct.val))

\* lines 168-184, with the result of the classifier
WithLinks(li, date_str, c) ==
    IF c.exc THEN Step("raise", NoneVal)
    ELSE IF c.val.popup_listen_url = Empty THEN Step("continue", NoneVal)
    ELSE WithMedia(li, date_str, c.val,
                   get_media_url_from_flashplayer(c.val.popup_listen_url,
                                                  SiteServes(c.val.popup_listen_url)))

\* lines 127-166, with the position d of the date in the text
WithDate(li, d) ==
    IF d = 0 THEN Step("continue", NoneVal)
    ELSE IF StopsAtYear(YearOf(li.text[d])) THEN Step("break", NoneVal)
    ELSE WithLinks(li, <<li.text[d]>>, ClassifyLinks(li.anchors, li.text))

\* one iteration of the loop over soup.find_all('li'), lines 120-207
ProcessItem(li) == WithDate(li, FirstDateIndex(li.text))

ListItem(t, a, b) == [text |-> t, anchors |-> a, bold |-> b]
PlaylistP1 == Anchor(<<"See the playlist">>, PlaylistHref("p1"))
PopupA == Anchor(<<"Pop-up">>, FlashHref(<<"1">>, <<"2">>))
PopupB == Anchor(<<"Listen">>, FlashHref(<<"3">>, <<"4">>))

ItemKinds ==
    { ListItem(<<"News", "Pop-up">>, <<PopupA>>, NoneVal),
      ListItem(<<"Apr 24, 2025", "Show", ".", "See the playlist", "Pop-up">>,
               <<PlaylistP1, PopupA>>, <<"Show", ".">>),
      ListItem(<<"Jan 5, 2026", "Dec 31, 2024", "Listen", "See the playlist">>,
               <<PopupB, PlaylistP1>>, <<"Late">>),
      ListItem(<<"Apr 24, 2025", "See the playlist">>, <<PlaylistP1>>, NoneVal),
      ListItem(<<"Dec 31, 2024", "Apr 24, 2025", "Pop-up">>, <<PopupA>>, <<"Old">>),
      ListItem(<<"Apr 24, 2025", "Pop-up">>,
               <<Anchor(<<"Pop-up">>, <<"//[", "flashplayer.php">>)>>, NoneVal) }

SourceUrl == <<"https://", "www.wfmu.org", "/", "playlists/LM">>

InitScrape ==
    /\ spc = "start"
    /\ page \in SeqsUpTo(ItemKinds, MaxItems)
    /\ li_idx = 0 /\ playlist_items = <<>> /\ entry_src = <<>> /\ entry_count = 0
    /\ snapshot = NoSnapshot
    /\ NoCall /\ NoDriver

\* lines 96-118: requests.get(url), raise_for_status
FetchListing ==
    /\ spc = "start"
    /\ \E ok \in BOOLEAN :
          IF ok THEN spc' = "loop" /\ li_idx' = 1
          ELSE spc' = "failed" /\ li_idx' = li_idx   \* except requests.RequestException
    /\ UNCHANGED <<page, playlist_items, entry_src, entry_count, snapshot, fvars, dvars>>

\* lines 120-207: the next list item, or the end of the loop
ScrapeItem ==
    /\ spc = "loop"
    /\ IF li_idx > Len(page)
       THEN /\ spc' = "write"
            /\ UNCHANGED <<li_idx, playlist_items, entry_src, entry_count>>
       ELSE \E r \in {ProcessItem(page[li_idx])} :
               CASE r.step = "continue" ->
                      /\ li_idx' = li_idx + 1
                      /\ UNCHANGED <<spc, playlist_items, entry_src, entry_count>>
                 [] r.step = "break" ->
                      /\ spc' = "write"
                      /\ UNCHANGED <<li_idx, playlist_items, entry_src, entry_count>>
                 [] r.step = "raise" ->
                      /\ spc' = "failed"                 \* except Exception: print
                      /\ UNCHANGED <<li_idx, playlist_items, entry_src, entry_count>>
                 [] r.step = "append" ->
                      /\ playlist_items' = Append(playlist_items, r.entry)
                      /\ entry_src' = Append(entry_src, li_idx)
                      /\ entry_count' = entry_count + 1
                      /\ IF entry_count + 1 >= max_entries
                         THEN spc' = "write" /\ li_idx' = li_idx
                         ELSE spc' = spc /\ li_idx' = li_idx + 1
    /\ UNCHANGED <<page, snapshot, fvars, dvars>>

\* lines 209-219: json.dump of the snapshot
WriteSnapshot ==
    /\ spc = "write"
    /\ snapshot' = [last_updated |-> <<"now">>, source_url |-> SourceUrl,
                    playlists |-> playlist_items]
    /\ spc' = "done"
    /\ UNCHANGED <<page, li_idx, playlist_items, entry_src, entry_count, fvars, dvars>>

NextScrape == FetchListing \/ ScrapeItem \/ WriteSnapshot
SpecScrape == InitScrape /\ [][NextScrape]_vars

-----------------------------------------------------------------------------
(* C6: the link classifier, first match wins. *)

MatchesPlaylist(a) == InSeq("See the playlist", a.text)
MatchesPopup(a) ==
    \/ InSeq("Pop-up", a.text)
    \/ InSeq("flashplayer.php", a.href) /\ InSeq("version=3", a.href)

\* the first anchor that Matches, 0 when there is none
FirstAnchor(anchors, Matches(_)) ==
    LET hits == {i \in 1..Len(anchors) : Matches(anchors[i])}
    IN IF hits = {} THEN 0 ELSE Min(hits)

HasIds(a) == QueryGet(a.href, "show=") # <<>> /\ QueryGet(a.href, "archive=") # <<>>

\* C6 as stated: for every list item and every order of its anchors, no
\* error is raised, playlist_link is set from the first anchor with the
\* playlist label (empty without one), and popup_listen_url is set from the
\* first anchor with the pop-up label or href pattern (empty without one).
C6_AsStated ==
    fn = "link classifier" =>
        /\ ~raised
        /\ \A i \in 1..Len(res) :
              LET pl == FirstAnchor(env.anchors, MatchesPlaylist)
                  pop == FirstAnchor(env.anchors, MatchesPopup)
              IN /\ res[i].playlist_link =
                        (IF pl = 0 THEN Empty ELSE WfmuHost \o env.anchors[pl].href)
                 /\ pop = 0 => res[i].popup_listen_url = Empty
                 /\ (pop # 0 /\ HasIds(env.anchors[pop])) =>
                        res[i].popup_listen_url =
                            PopupUrl(QueryGet(env.anchors[pop].href, "show="),
                                     QueryGet(env.anchors[pop].href, "archive="))

-----------------------------------------------------------------------------
(* C7: what a written snapshot holds. *)

Dated(li) == FirstDateIndex(li.text) # 0
ItemYear(li) == YearOf(li.text[FirstDateIndex(li.text)])

\* C7: a written snapshot has at most max_entries entries, each derived from
\* a list item whose text matches the date pattern with a year above the
\* cutoff, in page order, none from a list item after the first dated item
\* whose year is at or below the cutoff.
C7_SnapshotContents ==
    /\ spc # "done" => snapshot = NoSnapshot
    /\ spc = "done" =>
          /\ snapshot # NoSnapshot
          /\ Len(snapshot.playlists) <= max_entries
          /\ Len(entry_src) = Len(snapshot.playlists)
          /\ \A k \in 1..Len(entry_src) :
                /\ entry_src[k] \in 1..Len(page)
                /\ Dated(page[entry_src[k]])
                /\ ItemYear(page[entry_src[k]]) > CutoffYear
                /\ snapshot.playlists[k].date =
                       <<page[entry_src[k]].text[FirstDateIndex(page[entry_src[k]].text)]>>
                /\ \A l \in 1..(k - 1) : entry_src[l] < entry_src[k]
                /\ \A j \in 1..(entry_src[k] - 1) :
                       ~(Dated(page[j]) /\ ItemYear(page[j]) <= CutoffYear)

\* a run that stopped at a 2024 item with a 2025 item behind it
C7_Witness ==
    /\ spc = "done" /\ Len(page) >= 3
    /\ Len(snapshot.playlists) = 1 /\ entry_src = <<1>>
    /\ Dated(page[2]) /\ ItemYear(page[2]) <= CutoffYear
    /\ Dated(page[3]) /\ ItemYear(page[3]) > CutoffYear /\ page[3].anchors = <<PlaylistP1, PopupA>>

-----------------------------------------------------------------------------
(* play_wfmu.py: the playback driver.                                      *)

\* int(choice): surrounding whitespace, a sign, decimal digits; else ValueError
DigitChars == <<"0", "1", "2", "3", "4", "5", "6", "7", "8", "9">>
IsDigit(c) == InSeq(c, DigitChars)
DigitVal(c) == (CHOOSE i \in 1..Len(DigitChars) : DigitChars[i] = c) - 1
RECURSIVE DigitsValue(_)
DigitsValue(d) ==
    IF d = <<>> THEN 0
    ELSE 10 * DigitsValue(SubSeq(d, 1, Len(d) - 1)) + DigitVal(d[Len(d)])
Unsigned(d) ==
    IF d # <<>> /\ \A i \in 1..Len(d) : IsDigit(d[i]) THEN Ret(DigitsValue(d)) ELSE Raise
Negated(r) == IF r.exc THEN Raise ELSE Ret(0 - r.val)
Signed(t) ==
    IF t # <<>> /\ t[1] = "-" THEN Negated(Unsigned(Tail(t)))
    ELSE IF t # <<>> /\ t[1] = "+" THEN Unsigned(Tail(t))
    ELSE Unsigned(t)
ParseInt(s) == Signed(Strip(s))

\* str.lower()
Lower(s) == [i \in 1..Len(s) |-> IF s[i] = "Q" THEN "q" ELSE s[i]]

\* show[key]: KeyError when the entry has no such key
PyGet(show, key) == IF key \in DOMAIN show THEN Ret(show[key]) ELSE Raise

\* lines 41-43
is_rtmp_url(url) == StartsWith(url, {"rtmp://", "rtmpt://", "rtmps://"})

\* what the selection of a show came to: play a URL, no URL, or a KeyError
Resolution(kind, made, url) == [kind |-> kind, calls |-> made, url |-> url]
Tried(made, name, result) == Append(made, [fn |-> name, result |-> result])

\* lines 332-341, stream_url still empty
FromDirect(made, direct) ==
    IF direct.exc THEN Resolution("KeyError", made, NoneVal)
    ELSE IF Falsy(direct.val) THEN Resolution("nourl", made, NoneVal)
    ELSE Resolution("play", made, direct.val)
FromM3uResult(show, made, stream_url) ==
    IF ~Falsy(stream_url)
    THEN Resolution("play", Tried(made, "get_mp3_url_from_m3u", stream_url), stream_url)
    ELSE FromDirect(Tried(made, "get_mp3_url_from_m3u", stream_url),
                    PyGet(show, "direct_media_url"))
\* line 330
FromM3u(show, made, m3u_url, doc) ==
    IF m3u_url.exc THEN Resolution("KeyError", made, NoneVal)
    ELSE FromM3uResult(show, made, play_get_mp3_url_from_m3u(m3u_url.val, doc).val)
\* lines 328-330
FromFlashResult(show, stream_url, doc) ==
    IF ~Falsy(stream_url)
    THEN Resolution("play", Tried(<<>>, "get_stream_url_from_flashplayer", stream_url), stream_url)
    ELSE FromM3u(show, Tried(<<>>, "get_stream_url_from_flashplayer", stream_url),
                 PyGet(show, "m3u_url"), doc)
\* line 327
FromPopup(show, popup_url, served, doc) ==
    IF popup_url.exc THEN Resolution("KeyError", <<>>, NoneVal)
    ELSE FromFlashResult(show, get_stream_url_from_flashplayer(popup_url.val, served).val, doc)
\* lines 324-341
ResolveShow(show, served, doc) == FromPopup(show, PyGet(show, "popup_listen_url"), served, doc)

\* the end of one pass through the menu loop
Outcome(p, msg, s, r, exit) ==
    [pc |-> p, msg |-> msg, sel |-> s, calls |-> r.calls, url |-> r.url, exit |-> exit]
NoResolution == Resolution("none", <<>>, NoneVal)
Selected(n, r) ==
    CASE r.kind = "play" -> Outcome("play", "", n, r, "none")
      [] r.kind = "nourl" -> Outcome("menu", "No playable URL found for this show.", n, r, "none")
      [] r.kind = "KeyError" -> Outcome("crashed", "", n, r, "KeyError")
\* lines 322-345, n = int(choice)
WithNumber(n, shows, served, doc) ==
    IF n.exc THEN Outcome("menu", "Please enter a valid number.", 0, NoResolution, "none")
    ELSE IF 0 <= n.val - 1 /\ n.val - 1 < Len(shows)
    THEN Selected(n.val, ResolveShow(shows[n.val], served, doc))
    ELSE Outcome("menu", "Invalid show number.", 0, NoResolution, "none")
\* lines 312-348: list_shows, input(), and what follows
MenuOutcome(inp, shows, served, doc) ==
    IF inp.kind = "interrupt"
    THEN Outcome("exited", "Quitting...", 0, NoResolution, "KeyboardInterrupt")
    ELSE IF inp.kind = "eof" THEN Outcome("crashed", "", 0, NoResolution, "EOFError")
    ELSE IF Lower(inp.text) = <<"q">> THEN Outcome("exited", "", 0, NoResolution, "quit")
    ELSE WithNumber(ParseInt(inp.text), shows, served, doc)

\* the console: a line typed at the prompt, Ctrl-C, or end of input
Line(t) == [kind |-> "line", text |-> t]
MenuInputs ==
    {Line(t) : t \in { <<"q">>, <<"Q">>, <<"q", "q">>, <<"x">>, <<>>, <<"1", ".", "5">>,
                       <<"-", "1">>, <<"0">>, <<"1">>, <<SP, "2">>, <<"3">>, <<"4">>, <<"1", "0">> }}
    \cup {[kind |-> "interrupt"], [kind |-> "eof"]}

\* what the network serves while the driver resolves a show
DriverPages ==
    { PageServed("http_error", <<>>, <<>>),
      PageServed("ok", <<[id |-> "playlist-data", string |-> JsonText(WellFormed(RtmpUrl))]>>, <<>>),
      PageServed("ok", <<>>, <<[src |-> HttpUrl, data_url |-> NoneVal]>>),
      PageServed("ok", <<>>, <<[src |-> NoneVal, data_url |-> RtmpUrl]>>) }
DriverDocs == {M3uServed("http_error", <<>>), M3uServed("ok", <<"#", LF, "https://", "u", LF>>)}

\* the entries scrape_wfmu_playlists writes for three list items, and an
\* entry of another writer that has an m3u_url key
ScrapedEntries ==
    {ProcessItem(li).entry :
        li \in { ListItem(<<"Apr 24, 2025", "Show", "Pop-up">>, <<PlaylistP1, PopupA>>, <<"Show">>),
                 ListItem(<<"Jan 5, 2026", "Late", "Listen">>, <<PopupB>>, <<"Late">>),
                 ListItem(<<"Apr 24, 2025", "Other", "Pop-up">>,
                          <<Anchor(<<"Pop-up">>, FlashHref(<<"5">>, <<"6">>))>>, <<"Other">>) }}
ForeignEntries ==
    { [date |-> <<"Apr 24, 2025">>, title |-> <<"Show">>,
       popup_listen_url |-> PopupSample, m3u_url |-> M3uUrl, direct_media_url |-> d] :
         d \in {Empty, HttpUrl} }
Snapshots ==
    {[last_updated |-> <<"now">>, source_url |-> SourceUrl, playlists |-> p] :
        p \in SeqsUpTo(ScrapedEntries \cup ForeignEntries, MaxShows)}
    \cup {NoSnapshot}

Init ==
    /\ pc = "import"
    /\ vlcInstalled \in BOOLEAN /\ ffmpegInstalled \in BOOLEAN
    /\ snapshotFile \in Snapshots
    /\ playlists = <<>> /\ printed = NothingPrinted
    /\ netUsed = FALSE /\ loaded = FALSE /\ prompted = FALSE
    /\ lastInput = NoInput /\ sel = 0 /\ calls = <<>> /\ handed = NoneVal
    /\ menuExit = "none" /\ path = "none" /\ playerState = "none"
    /\ ffmpeg = "none" /\ tempFile = "none" /\ loopExit = "none"
    /\ iter = NoIteration
    /\ NoCall /\ NoScrape

startupVars == <<vlcInstalled, ffmpegInstalled, snapshotFile>>
menuVars == <<netUsed, prompted, lastInput, sel, calls, handed, menuExit>>
playVars == <<path, playerState, ffmpeg, tempFile, loopExit, iter>>

\* lines 1-14: the imports at the top of the module; a missing python-vlc
\* is a ModuleNotFoundError nothing catches
ImportModule ==
    /\ pc = "import"
    /\ pc' = IF vlcInstalled THEN "main" ELSE "crashed"
    /\ UNCHANGED <<startupVars, playlists, printed, loaded, menuVars, playVars, fvars, svars>>

\* lines 289-296
CheckVlc ==
    /\ pc = "main"
    /\ IF vlcInstalled
       THEN pc' = "check_ffmpeg" /\ printed' = printed
       ELSE pc' = "exited" /\ printed' = [printed EXCEPT !.vlc = @ + 1]
    /\ UNCHANGED <<startupVars, playlists, loaded, menuVars, playVars, fvars, svars>>

\* lines 298-304
CheckFfmpeg ==
    /\ pc = "check_ffmpeg"
    /\ IF ffmpegInstalled
       THEN pc' = "load" /\ printed' = printed
       ELSE pc' = "exited" /\ printed' = [printed EXCEPT !.ffmpeg = @ + 1]
    /\ UNCHANGED <<startupVars, playlists, loaded, menuVars, playVars, fvars, svars>>

\* lines 23-32 and 306-310
LoadPlaylists ==
    /\ pc = "load"
    /\ loaded' = TRUE
    /\ playlists' = IF snapshotFile = NoSnapshot THEN <<>> ELSE snapshotFile.playlists
    /\ IF playlists' = <<>>
       THEN pc' = "exited" /\ printed' = [printed EXCEPT !.no_playlists = @ + 1]
       ELSE pc' = "menu" /\ printed' = printed
    /\ UNCHANGED <<startupVars, menuVars, playVars, fvars, svars>>

\* lines 312-348: one pass through the menu loop, up to the call of play_stream
MenuStep ==
    /\ pc = "menu"
    /\ \E inp \in MenuInputs, served \in DriverPages, doc \in DriverDocs :
          \E o \in {MenuOutcome(inp, playlists, served, doc)} :
              /\ prompted' = TRUE
              /\ lastInput' = inp
              /\ sel' = o.sel
              /\ calls' = o.calls
              /\ handed' = o.url
              /\ netUsed' = (netUsed \/ o.calls # <<>>)
              /\ printed' = [printed EXCEPT !.last = o.msg]
              /\ menuExit' = o.exit
              /\ pc' = o.pc
    /\ UNCHANGED <<startupVars, playlists, loaded, playVars, fvars, svars>>

\* libvlc: how the player's state moves by itself between two polls
Evolve(st) ==
    CASE st = "Opening" -> {"Opening", "Playing", "Error"}
      [] st = "Playing" -> {"Playing", "Ended", "Error"}
      [] OTHER -> {st}
\* player.play()
Play(st) ==
    IF st = "Paused" THEN "Playing"
    ELSE IF st \in {"Opening", "Playing"} THEN st ELSE "Opening"
\* a 'p' that pauses whatever the player is doing
TogglePauseOnly(st) == "Paused"

\* lines 187-193 and 265-271: is_playing() decides between pause() and play()
Toggle(st) == IF st = "Playing" THEN "Paused" ELSE Play(st)
\* lines 181-196 and 261-274: the player after the command
AfterCmd(st, cmd) ==
    CASE cmd \in {"q", "s"} -> "Stopped"
      [] cmd = "p" -> Toggle(st)
      [] OTHER -> st
\* the character read from the console in one poll; "" when none is ready
Cmds == {"", "q", "p", "s", "x"}
LoopEvents == {"poll", "Exception", "KeyboardInterrupt"}

\* lines 123-172: play_rtmp_stream up to player.play()
StartRtmp ==
    /\ pc = "play" /\ is_rtmp_url(handed)
    /\ path' = "rtmp" /\ loopExit' = "none" /\ iter' = NoIteration
    /\ \E outcome \in {"ok", "popen_fails", "player_fails"} :
          CASE outcome = "ok" ->
                 /\ tempFile' = "exists" /\ ffmpeg' = "running"
                 /\ playerState' = "Opening" /\ pc' = "loop"
            [] outcome = "popen_fails" ->        \* lines 216-221, no ffmpeg_process
                 /\ tempFile' = "deleted" /\ ffmpeg' = "none"
                 /\ playerState' = "none" /\ pc' = "menu"
            [] outcome = "player_fails" ->       \* lines 216-221
                 /\ tempFile' = "deleted" /\ ffmpeg' = "terminated"
                 /\ playerState' = "none" /\ pc' = "menu"
    /\ UNCHANGED <<startupVars, playlists, printed, loaded, menuVars, fvars, svars>>

\* lines 228-253: play_stream, direct path, up to the control loop
StartDirect ==
    /\ pc = "play" /\ ~is_rtmp_url(handed)
    /\ path' = "direct" /\ loopExit' = "none" /\ iter' = NoIteration
    /\ tempFile' = "none" /\ ffmpeg' = "none"
    /\ \E outcome \in {"ok", "player_fails"} :
          IF outcome = "ok"
          THEN playerState' = "Opening" /\ pc' = "loop"
          ELSE playerState' = "none" /\ pc' = "menu"   \* lines 285-286
    /\ UNCHANGED <<startupVars, playlists, printed, loaded, menuVars, fvars, svars>>

\* lines 176-221: one iteration of the RTMP control loop, with the finally
\* block and the handler when the iteration leaves the loop
RtmpLoop ==
    /\ pc = "loop" /\ path = "rtmp"
    /\ \E st \in Evolve(playerState), ev \in LoopEvents, cmd \in Cmds :
          CASE ev = "Exception" ->
                 \* finally deletes the file, then line 221 unlinks it again:
                 \* FileNotFoundError leaves play_rtmp_stream and main
                 /\ playerState' = "Stopped" /\ ffmpeg' = "terminated"
                 /\ tempFile' = "deleted" /\ loopExit' = "exception"
                 /\ iter' = Iteration(ev, "", st, "unchecked")
                 /\ pc' = "crashed" /\ menuExit' = "FileNotFoundError"
                 /\ printed' = printed
            [] ev = "KeyboardInterrupt" ->
                 /\ playerState' = "Stopped" /\ ffmpeg' = "terminated"
                 /\ tempFile' = "deleted" /\ loopExit' = "interrupt"
                 /\ iter' = Iteration(ev, "", st, "unchecked")
                 /\ pc' = "exited" /\ menuExit' = "KeyboardInterrupt"
                 /\ printed' = [printed EXCEPT !.last = "Quitting..."]
            [] ev = "poll" /\ (cmd = "q" \/ AfterCmd(st, cmd) = "Error") ->
                 /\ playerState' = "Stopped" /\ ffmpeg' = "terminated"
                 /\ tempFile' = "deleted"
                 /\ loopExit' = IF cmd = "q" THEN "q" ELSE "error"
                 /\ iter' = Iteration(ev, cmd, st, IF cmd = "q" THEN "unchecked" ELSE "Error")
                 /\ pc' = "menu"
                 /\ UNCHANGED <<menuExit, printed>>
            [] OTHER ->
                 /\ playerState' = AfterCmd(st, cmd)
                 /\ iter' = Iteration(ev, cmd, st, AfterCmd(st, cmd))
                 /\ UNCHANGED <<ffmpeg, tempFile, loopExit, pc, menuExit, printed>>
    /\ UNCHANGED <<startupVars, playlists, loaded, netUsed, prompted, lastInput,
                   sel, calls, handed, path, fvars, svars>>

\* lines 256-286: one iteration of the direct control loop
DirectLoop ==
    /\ pc = "loop" /\ path = "direct"
    /\ \E st \in Evolve(playerState), ev \in LoopEvents, cmd \in Cmds :
          CASE ev = "Exception" ->               \* lines 285-286
                 /\ playerState' = st /\ loopExit' = "exception"
                 /\ iter' = Iteration(ev, "", st, "unchecked")
                 /\ pc' = "menu"
                 /\ UNCHANGED <<menuExit, printed>>
            [] ev = "KeyboardInterrupt" ->       \* lines 346-348
                 /\ playerState' = st /\ loopExit' = "interrupt"
                 /\ iter' = Iteration(ev, "", st, "unchecked")
                 /\ pc' = "exited" /\ menuExit' = "KeyboardInterrupt"
                 /\ printed' = [printed EXCEPT !.last = "Quitting..."]
            [] ev = "poll" /\ cmd = "q" ->       \* lines 261-264
                 /\ playerState' = "Stopped" /\ loopExit' = "q"
                 /\ iter' = Iteration(ev, cmd, st, "unchecked")
                 /\ pc' = "menu"
                 /\ UNCHANGED <<menuExit, printed>>
            [] ev = "poll" /\ cmd # "q" /\ AfterCmd(st, cmd) = "Error" ->  \* lines 277-280
                 /\ playerState' = "Error" /\ loopExit' = "error"
                 /\ iter' = Iteration(ev, cmd, st, "Error")
                 /\ pc' = "menu"
                 /\ UNCHANGED <<menuExit, printed>>
            [] OTHER ->
                 /\ playerState' = AfterCmd(st, cmd)
                 /\ iter' = Iteration(ev, cmd, st, AfterCmd(st, cmd))
                 /\ UNCHANGED <<loopExit, pc, menuExit, printed>>
    /\ UNCHANGED <<startupVars, playlists, loaded, netUsed, prompted, lastInput,
                   sel, calls, handed, path, ffmpeg, tempFile, fvars, svars>>

Next ==
    \/ ImportModule \/ CheckVlc \/ CheckFfmpeg \/ LoadPlaylists \/ MenuStep
    \/ StartRtmp \/ StartDirect \/ RtmpLoop \/ DirectLoop
Spec == Init /\ [][Next]_vars

-----------------------------------------------------------------------------
(* Claims about the playback driver.                                       *)

Terminated == pc \in {"exited", "crashed"}
ScrapedSelected == sel # 0 /\ playlists[sel] \in ScrapedEntries
NothingEarlier == \A i \in 1..Len(calls) : Falsy(calls[i].result)
ResolverOrder ==
    /\ Len(calls) \in 1..2
    /\ calls[1].fn = "get_stream_url_from_flashplayer"
    /\ Len(calls) = 2 => calls[2].fn = "get_mp3_url_from_m3u"

\* C1: for a valid selection of an entry the scraper wrote, the popup-page
\* resolver is tried first and the playlist-file resolver second; when
\* they yield nothing and the stored direct URL is non-empty that URL is
\* handed to play_stream, and when it is empty too the driver prints that
\* no playable URL was found and is back at the prompt with no player
\* invoked.
C1_AsStated ==
    ScrapedSelected =>
        /\ ResolverOrder
        /\ (NothingEarlier /\ ~Falsy(playlists[sel].direct_media_url))
              => handed = playlists[sel].direct_media_url
        /\ (NothingEarlier /\ Falsy(playlists[sel].direct_media_url))
              => /\ printed.last = "No playable URL found for this show."
                 /\ pc = "menu" /\ handed = NoneVal

InvalidChoice(t, n) ==
    /\ Lower(t) # <<"q">>
    /\ ParseInt(t).exc \/ ParseInt(t).val \notin 1..n

\* C2: an input other than q/Q that is not a number, or is a number
\* outside 1..len(playlists), invokes no resolver and no player, leaves
\* the loaded list as it was and is followed by the prompt again; and the
\* menu loop is left only by the quit command or a keyboard interrupt.
C2_AsStated ==
    /\ (lastInput.kind = "line" /\ InvalidChoice(lastInput.text, Len(playlists)))
          => /\ calls = <<>> /\ handed = NoneVal
             /\ playlists = snapshotFile.playlists
             /\ pc = "menu"
    /\ (prompted /\ Terminated) => menuExit \in {"quit", "KeyboardInterrupt"}

\* C3: after a control loop is left by the q command or by the Error
\* state, on either path, the player is stopped, and on the RTMP path the
\* ffmpeg process is terminated and the temporary file is deleted.
C3_AsStated ==
    loopExit \in {"q", "error"} =>
        /\ playerState = "Stopped"
        /\ path = "rtmp" => (ffmpeg = "terminated" /\ tempFile = "deleted")

\* C4: with python-vlc or ffmpeg missing, the driver prints the matching
\* message exactly once and exits cleanly, before the snapshot is loaded,
\* before any prompt and before any network request.
C4_AsStated ==
    /\ (~vlcInstalled \/ ~ffmpegInstalled) => (~loaded /\ ~prompted /\ ~netUsed)
    /\ (~vlcInstalled /\ Terminated) => (pc = "exited" /\ printed.vlc = 1)
    /\ (vlcInstalled /\ ~ffmpegInstalled /\ Terminated)
          => (pc = "exited" /\ printed.ffmpeg = 1)

-----------------------------------------------------------------------------
(* C11: the raw_text of a written entry. *)

\* C11: every entry of a written snapshot has as raw_text the visible text
\* of the list item it was derived from, the text the date pattern was
\* matched against, however many anchors the item has.
C11_AsStated ==
    spc = "done" =>
        \A k \in 1..Len(snapshot.playlists) :
            snapshot.playlists[k].raw_text = page[entry_src[k]].text

-----------------------------------------------------------------------------
(* C12: the commands of the two control loops.  The claim is about the     *)
(* characters read from the console, so it is stated on the passes that    *)
(* read the console without an exception or an interrupt (ev = "poll").    *)

Polled == path \in {"direct", "rtmp"} /\ iter.ev = "poll"

\* C12: in both control loops, 'p' pauses a playing player and otherwise
\* starts it playing, 's' stops it, and a pass with 'p', 's', another
\* character or none stays in the loop unless the state it observes is
\* Error; the loop is left only after 'q' or after Error was observed; and
\* a pass that stays in the loop has observed the state the player had
\* once the command was handled.
C12_ControlLoop ==
    Polled =>
        /\ (iter.cmd = "p" /\ iter.before = "Playing") => iter.observed = "Paused"
        /\ (iter.cmd = "p" /\ iter.before # "Playing") =>
               iter.observed \in {"Opening", "Playing"}
        /\ iter.cmd = "s" => iter.observed = "Stopped"
        /\ iter.cmd \in {"", "x"} => iter.observed = iter.before
        /\ (iter.cmd # "q" /\ iter.observed # "Error") =>
               (pc = "loop" /\ loopExit = "none")
        /\ loopExit # "none" =>
               \/ iter.cmd = "q" /\ loopExit = "q"
               \/ iter.cmd # "q" /\ iter.observed = "Error" /\ loopExit = "error"
        /\ pc = "loop" =>
               (iter.cmd # "q" /\ iter.observed = playerState /\ iter.observed # "Error")

\* on the direct path a 'p' met a playing player, paused it, and the loop
\* goes on
C12_Witness ==
    /\ Polled /\ path = "direct" /\ pc = "loop"
    /\ iter.cmd = "p" /\ iter.before = "Playing" /\ iter.observed = "Paused"
    /\ playerState = "Paused"

-----------------------------------------------------------------------------
(* C13: failures inside play_rtmp_stream. *)

\* C13: play_rtmp_stream lets no exception of a failed step (starting
\* ffmpeg, creating the player, a pass of the control loop) reach its
\* caller: once it is over ffmpeg is terminated if it was started and the
\* temporary file is deleted, and after a failed step the driver is back in
\* its menu loop.
C13_AsStated ==
    /\ menuExit # "FileNotFoundError"
    /\ (path = "rtmp" /\ pc # "loop") =>
           (ffmpeg \in {"none", "terminated"} /\ tempFile = "deleted")
    /\ (path = "rtmp" /\ iter.ev = "Exception") => pc # "crashed"

====
